---- MODULE Spec2Model ----
(***************************************************************************)
(* Rectal_Air_Intervention_Check.py: the rectal air evaluation of          *)
(* Model.evaluate_rectal_air, driven by the View/Controller callbacks.     *)
(*                                                                         *)
(* Floating point values (doses, relative volumes, voxel sizes, metrics)   *)
(* are exact rationals <<numerator, denominator>> in lowest terms.         *)
(* A 3D array is a sequence (z) of sequences (y) of sequences (x); the     *)
(* 0-based position p of the source is position p + 1 here.                *)
(* DoseData, VoxelIndices and RelativeVolumes are numpy arrays, so an       *)
(* out-of-range offset or a mask of the wrong length raises IndexError,     *)
(* which Tk reports while the window stays open; exit() ends the process.   *)
(***************************************************************************)
EXTENDS Integers, Sequences, FiniteSets, TLC

\* ------------------------------------------------------------------ bounds
MaxFractions == 7       \* longest treatment course of a snapshot
MaxRoi == 2             \* longest VoxelIndices / RelativeVolumes list
MaxRuns == 2            \* clicks on "Analyse" followed in one behaviour

\* ------------------------------------------------------- rational numbers
Abs(n) == IF n < 0 THEN -n ELSE n

RECURSIVE Gcd(_, _)
Gcd(a, b) == IF b = 0 THEN a ELSE Gcd(b, a % b)

\* n / d in lowest terms, d > 0
Rat(n, d) ==
    LET g == Gcd(Abs(n), d)
    IN  IF n = 0 THEN <<0, 1>> ELSE <<n \div g, d \div g>>

RatAdd(p, q) == Rat(p[1] * q[2] + q[1] * p[2], p[2] * q[2])
RatMul(p, q) == Rat(p[1] * q[1], p[2] * q[2])
RatDivInt(p, n) == Rat(p[1], p[2] * n)
RatGE(p, q) == p[1] * q[2] >= q[1] * p[2]
RatOfInt(n) == <<n, 1>>

\* --------------------------------------------------------- numpy helpers
\* np.zeros([z, y, x])
NpZeros(nz, ny, nx) ==
    [z \in 1..nz |-> [y \in 1..ny |-> [x \in 1..nx |-> RatOfInt(0)]]]

\* a + b of two arrays of one shape
NpAdd(a, b) ==
    [z \in 1..Len(a) |-> [y \in 1..Len(a[z]) |-> [x \in 1..Len(a[z][y]) |->
        RatAdd(a[z][y][x], b[z][y][x])]]]

\* a * c for a scalar c
NpScale(a, c) ==
    [z \in 1..Len(a) |-> [y \in 1..Len(a[z]) |-> [x \in 1..Len(a[z][y]) |->
        RatMul(a[z][y][x], c)]]]

\* a / n for an integer n
NpDivide(a, n) ==
    [z \in 1..Len(a) |-> [y \in 1..Len(a[z]) |-> [x \in 1..Len(a[z][y]) |->
        RatDivInt(a[z][y][x], n)]]]

\* ndarray.flatten(): row-major (C order), x runs fastest
Flatten(a) ==
    LET nz == Len(a)
        ny == IF nz = 0 THEN 0 ELSE Len(a[1])
        nx == IF ny = 0 THEN 0 ELSE Len(a[1][1])
    IN  [k \in 1..(nz * ny * nx) |->
            a[((k - 1) \div (ny * nx)) + 1]
             [(((k - 1) \div nx) % ny) + 1]
             [((k - 1) % nx) + 1]]

\* flat[indices] is an IndexError when an index is out of bounds
TakeFails(flat, indices) ==
    \E k \in 1..Len(indices) :
        indices[k] >= Len(flat) \/ indices[k] < -Len(flat)

\* flat[indices]: integer array indexing, a negative index counts from the end
Take(flat, indices) ==
    [k \in 1..Len(indices) |->
        IF indices[k] >= 0 THEN flat[indices[k] + 1]
                           ELSE flat[Len(flat) + indices[k] + 1]]

\* doses >= threshold: the boolean mask
MaskGE(doses, threshold) ==
    [k \in 1..Len(doses) |-> RatGE(doses[k], RatOfInt(threshold))]

\* values[mask] is an IndexError unless mask is as long as values
MaskSelectFails(values, mask) == Len(values) # Len(mask)

\* values[mask]: the values at the positions where the mask is True
RECURSIVE MaskSelect(_, _)
MaskSelect(values, mask) ==
    IF Len(mask) = 0 THEN <<>>
    ELSE LET n == Len(mask)
             front == MaskSelect(SubSeq(values, 1, n - 1), SubSeq(mask, 1, n - 1))
         IN  IF mask[n] THEN Append(front, values[n]) ELSE front

\* np.sum of a float array
RECURSIVE NpSum(_)
NpSum(values) ==
    IF Len(values) = 0 THEN RatOfInt(0)
    ELSE RatAdd(NpSum(SubSeq(values, 1, Len(values) - 1)), values[Len(values)])

\* np.sum of a boolean mask: the number of True entries
RECURSIVE NpCount(_)
NpCount(mask) ==
    IF Len(mask) = 0 THEN 0
    ELSE NpCount(SubSeq(mask, 1, Len(mask) - 1)) + (IF mask[Len(mask)] THEN 1 ELSE 0)

\* ------------------------------------------- label text <-> integer (tk)
Digits == <<"0", "1", "2", "3", "4", "5", "6", "7", "8", "9">>

RECURSIVE FormatNat(_)
FormatNat(n) ==
    IF n < 10 THEN <<Digits[n + 1]>>
    ELSE Append(FormatNat(n \div 10), Digits[(n % 10) + 1])

\* label.config(text=n): the decimal text of an int
FormatInt(n) == IF n < 0 THEN <<"-">> \o FormatNat(-n) ELSE FormatNat(n)

DigitValue(c) == CHOOSE d \in 0..9 : Digits[d + 1] = c

RECURSIVE ParseNat(_)
ParseNat(s) ==
    IF Len(s) = 0 THEN 0
    ELSE 10 * ParseNat(SubSeq(s, 1, Len(s) - 1)) + DigitValue(s[Len(s)])

\* int(label.cget("text"))
ParseInt(s) ==
    IF Len(s) > 0 /\ s[1] = "-" THEN -ParseNat(Tail(s)) ELSE ParseNat(s)

\* ------------------------------------------------------ program constants
required_fractions == 5     \* minimum number of delivered fractions
threshold_v6000 == 6000     \* threshold dose for V6000 (cGy)
threshold_v6200 == 6200     \* threshold dose for V6200 (cGy)
volume_limit_v6200 == <<2, 1>>   \* clinical goal: max 2.0 cc at 6200 cGy
dose_limit_v6000 == <<3, 1>>     \* clinical goal: max 3.0 % at 6000 cGy

\* ------------------------------------------------- the planning snapshot
\* InDoseGrid.NrVoxels of the deformed dose grids
GridShape == [z |-> 1, y |-> 2, x |-> 2]
NVoxels == GridShape.z * GridShape.y * GridShape.x

\* DoseValues.DoseData of a fraction without and with less rectal dose (cGy)
GridA == << << <<RatOfInt(0), RatOfInt(1000)>>, <<RatOfInt(1040), RatOfInt(500)>> >> >>
GridB == << << <<RatOfInt(0), RatOfInt(800)>>,  <<RatOfInt(1000), RatOfInt(500)>> >> >>
FractionGrids == {GridA, GridB}

\* InDoseGrid.VoxelSize (cm)
VoxelSizes == { [x |-> <<1, 1>>, y |-> <<1, 1>>, z |-> <<1, 1>>],
                [x |-> <<1, 1>>, y |-> <<1, 1>>, z |-> <<1, 2>>] }

\* RoiVolumeDistribution.VoxelIndices: flat offsets, NVoxels is out of range
IndexValues == {1, 2, NVoxels}
\* RoiVolumeDistribution.RelativeVolumes
WeightValues == { <<1, 100>>, <<1, 50>> }

SeqsUpTo(S, n) == UNION { [1..m -> S] : m \in 0..n }

VARIABLES
    TreatmentFractions,       \* the course: Status, DoseData, InDoseGrid per fraction
    RoiVolumeDistribution,    \* VoxelIndices and RelativeVolumes of 'Rectum'
    total_fractions_label,    \* text of the view's label
    delivered_fractions_label,
    pc,                       \* position of the process
    total_fractions, delivered_fractions,
    voxel_indices, relative_volumes, voxel_volume_cc,
    delivered_dose, i, mean_dose, accumulated_dose,
    current_v6000, current_v6200,
    air_dose, remaining_fractions, x,
    CG_v6000, CG_v6200,
    decision,                 \* the dialog the evaluation ended with
    reads,                    \* what the evaluation read from the snapshot
    future_log,               \* future_total_dose of every loop pass
    runs, prev                \* evaluations started, result of the one before

snapshot == <<TreatmentFractions, RoiVolumeDistribution>>
labels == <<total_fractions_label, delivered_fractions_label>>
locals == <<total_fractions, delivered_fractions, voxel_indices, relative_volumes,
            voxel_volume_cc, delivered_dose, i, mean_dose, accumulated_dose,
            current_v6000, current_v6200, air_dose, remaining_fractions, x,
            CG_v6000, CG_v6200>>
vars == <<snapshot, labels, pc, locals, decision, reads, future_log, runs, prev>>

Unset == <<>>
\* summed: the fractions added to delivered_dose; air: the fraction read as air_dose
NoReads == [roi |-> FALSE, geometry |-> FALSE, summed |-> <<>>, air |-> <<>>]

\* the outcome handed to the user
Result == <<decision, current_v6000, current_v6200, CG_v6000, CG_v6200>>

Init ==
    /\ \E total \in 1..MaxFractions, reported \in 0..MaxFractions,
          first \in FractionGrids, second \in FractionGrids,
          switch \in 0..MaxFractions, size \in VoxelSizes :
        /\ reported <= total
        /\ switch <= total
        /\ TreatmentFractions =
             [k \in 1..total |->
                [Status |-> IF k <= reported THEN "Delivered" ELSE "Pending",
                 DoseData |-> IF k <= switch THEN first ELSE second,
                 InDoseGrid |-> [NrVoxels |-> GridShape, VoxelSize |-> size]]]
    /\ \E indices \in SeqsUpTo(IndexValues, MaxRoi),
          weights \in SeqsUpTo(WeightValues, MaxRoi) :
        RoiVolumeDistribution =
            [VoxelIndices |-> indices, RelativeVolumes |-> weights]
    /\ total_fractions_label = Unset
    /\ delivered_fractions_label = Unset
    /\ pc = "off"
    /\ total_fractions = 0
    /\ delivered_fractions = 0
    /\ voxel_indices = Unset
    /\ relative_volumes = Unset
    /\ voxel_volume_cc = Unset
    /\ delivered_dose = Unset
    /\ i = 0
    /\ mean_dose = Unset
    /\ accumulated_dose = Unset
    /\ current_v6000 = Unset
    /\ current_v6200 = Unset
    /\ air_dose = Unset
    /\ remaining_fractions = 0
    /\ x = 0
    /\ CG_v6000 = Unset
    /\ CG_v6200 = Unset
    /\ decision = "none"
    /\ reads = NoReads
    /\ future_log = <<>>
    /\ runs = 0
    /\ prev = Unset

\* ------------------------------------------------------------ operations
\* Model.get_fraction_info: total and delivered - 1
DeliveredCount(fractions) ==
    Cardinality({k \in 1..Len(fractions) : fractions[k].Status = "Delivered"})

\* variant of get_fraction_info: the raw delivered count
GetFractionInfo_Raw(fractions) ==
    [total |-> Len(fractions), delivered |-> DeliveredCount(fractions)]

GetFractionInfo(fractions) ==
    [total |-> Len(fractions), delivered |-> DeliveredCount(fractions) - 1]

\* App.__init__ and View.initialize_data: the labels show the fraction info
Launch ==
    /\ pc = "off"
    /\ LET info == GetFractionInfo(TreatmentFractions)
       IN  /\ total_fractions_label' = FormatInt(info.total)
           /\ delivered_fractions_label' = FormatInt(info.delivered)
    /\ pc' = "idle"
    /\ UNCHANGED <<snapshot, locals, decision, reads, future_log, runs, prev>>

\* View._cancel_clicked: the window is destroyed and mainloop returns
CancelClicked ==
    /\ pc = "idle"
    /\ pc' = "off"
    /\ UNCHANGED <<snapshot, labels, locals, decision, reads, future_log, runs, prev>>

\* variant of the gate: one fraction less is accepted
InsufficientFractions_OneLess(delivered) == delivered < required_fractions - 1

\* the sufficiency gate of evaluate_rectal_air
InsufficientFractions(delivered) == delivered < required_fractions

\* variant of the curve lists: the list of the call before is kept
FreshCurve_Kept == CG_v6000

\* CG_v6000 = [] and CG_v6200 = []: a new list in every call
FreshCurve == <<>>

\* View._analyse_clicked, Controller.run_analysis and the entry of
\* evaluate_rectal_air: the gate, then the two empty curve lists
AnalyseClicked ==
    /\ pc = "idle"
    /\ runs < MaxRuns
    /\ runs' = runs + 1
    /\ prev' = IF runs = 0 THEN Unset ELSE Result
    /\ total_fractions' = ParseInt(total_fractions_label)
    /\ delivered_fractions' = ParseInt(delivered_fractions_label)
    /\ reads' = NoReads
    /\ future_log' = <<>>
    /\ voxel_indices' = Unset
    /\ relative_volumes' = Unset
    /\ voxel_volume_cc' = Unset
    /\ delivered_dose' = Unset
    /\ i' = 0
    /\ mean_dose' = Unset
    /\ accumulated_dose' = Unset
    /\ current_v6000' = Unset
    /\ current_v6200' = Unset
    /\ air_dose' = Unset
    /\ remaining_fractions' = 0
    /\ x' = 0
    /\ CG_v6000' = FreshCurve
    /\ CG_v6200' = FreshCurve
    /\ IF InsufficientFractions(delivered_fractions')
         THEN /\ decision' = "InterveneInsufficientData"
              /\ pc' = "off"
         ELSE /\ decision' = "none"
              /\ pc' = "load"
    /\ UNCHANGED <<snapshot, labels>>

\* product of the three voxel edge lengths
VoxelVolume(size) == RatMul(RatMul(size.x, size.y), size.z)

\* the ROI, the grid shape, the voxel volume and the zeroed accumulator
LoadRoi ==
    /\ pc = "load"
    /\ voxel_indices' = RoiVolumeDistribution.VoxelIndices
    /\ relative_volumes' = RoiVolumeDistribution.RelativeVolumes
    /\ LET grid == TreatmentFractions[0 + 1].InDoseGrid
       IN  /\ voxel_volume_cc' = VoxelVolume(grid.VoxelSize)
           /\ delivered_dose' = NpZeros(grid.NrVoxels.z, grid.NrVoxels.y, grid.NrVoxels.x)
    /\ i' = 0
    /\ reads' = [reads EXCEPT !.roi = TRUE, !.geometry = TRUE]
    /\ pc' = "accumulate"
    /\ UNCHANGED <<snapshot, labels, total_fractions, delivered_fractions,
                   mean_dose, accumulated_dose, current_v6000, current_v6200,
                   air_dose, remaining_fractions, x, CG_v6000, CG_v6200,
                   decision, future_log, runs, prev>>

\* variant of the loop: range(delivered_fractions - 1)
AccumulateMore_Short(index, delivered) == index < delivered - 1

\* for i in range(delivered_fractions)
AccumulateMore(index, delivered) == index < delivered

\* one pass of the accumulation loop
Accumulate ==
    /\ pc = "accumulate"
    /\ AccumulateMore(i, delivered_fractions)
    /\ delivered_dose' = NpAdd(delivered_dose, TreatmentFractions[i + 1].DoseData)
    /\ reads' = [reads EXCEPT !.summed = Append(@, i)]
    /\ i' = i + 1
    /\ UNCHANGED <<snapshot, labels, pc, total_fractions, delivered_fractions,
                   voxel_indices, relative_volumes, voxel_volume_cc,
                   mean_dose, accumulated_dose, current_v6000, current_v6200,
                   air_dose, remaining_fractions, x, CG_v6000, CG_v6200,
                   decision, future_log, runs, prev>>

\* mean dose of a delivered fraction
MeanDose(summed, delivered) == NpDivide(summed, delivered)

\* predicted total dose of the course
AccumulatedDose(mean, total) == NpScale(mean, RatOfInt(total))

\* V6000 in %: relative volume at or above the threshold, times 100
V6000(weights, doses) ==
    RatMul(NpSum(MaskSelect(weights, MaskGE(doses, threshold_v6000))), RatOfInt(100))

\* variant of V6200: the V6000 threshold is used
V6200_WrongThreshold(doses, volume) ==
    RatMul(RatOfInt(NpCount(MaskGE(doses, threshold_v6000))), volume)

\* V6200 in cc: number of voxels at or above the threshold, times the voxel volume
V6200(doses, volume) ==
    RatMul(RatOfInt(NpCount(MaskGE(doses, threshold_v6200))), volume)

\* numpy raises IndexError while the metrics of a grid are computed
MetricsFail(grid, indices, weights) ==
    \/ TakeFails(Flatten(grid), indices)
    \/ MaskSelectFails(weights, indices)

\* the mean dose, the predicted total dose and the current metrics
CurrentMetrics ==
    /\ pc = "accumulate"
    /\ ~AccumulateMore(i, delivered_fractions)
    /\ mean_dose' = MeanDose(delivered_dose, delivered_fractions)
    /\ accumulated_dose' = AccumulatedDose(mean_dose', total_fractions)
    /\ IF MetricsFail(accumulated_dose', voxel_indices, relative_volumes)
         THEN /\ decision' = "IndexError"
              /\ pc' = "idle"
              /\ UNCHANGED <<current_v6000, current_v6200>>
         ELSE /\ LET roi_doses == Take(Flatten(accumulated_dose'), voxel_indices)
                 IN  /\ current_v6000' = V6000(relative_volumes, roi_doses)
                     /\ current_v6200' = V6200(roi_doses, voxel_volume_cc)
              /\ pc' = "check"
              /\ UNCHANGED decision
    /\ UNCHANGED <<snapshot, labels, total_fractions, delivered_fractions,
                   voxel_indices, relative_volumes, voxel_volume_cc,
                   delivered_dose, i, air_dose, remaining_fractions, x,
                   CG_v6000, CG_v6200, reads, future_log, runs, prev>>

\* variant of the goal check: a value equal to its limit passes
GoalExceeded_Strict(v6000, v6200) ==
    ~RatGE(dose_limit_v6000, v6000) \/ ~RatGE(volume_limit_v6200, v6200)

\* a clinical goal is reached or exceeded
GoalExceeded(v6000, v6200) ==
    RatGE(v6000, dose_limit_v6000) \/ RatGE(v6200, volume_limit_v6200)

\* the clinical goal check; when it passes, the air fraction's dose is read
GoalCheck ==
    /\ pc = "check"
    /\ IF GoalExceeded(current_v6000, current_v6200)
         THEN /\ decision' = "InterveneGoalExceeded"
              /\ pc' = "off"
              /\ UNCHANGED <<air_dose, remaining_fractions, x, reads>>
         ELSE /\ air_dose' = TreatmentFractions[delivered_fractions + 1].DoseData
              /\ reads' = [reads EXCEPT !.air = Append(@, delivered_fractions)]
              /\ remaining_fractions' = total_fractions - delivered_fractions
              /\ x' = 1
              /\ pc' = "project"
              /\ UNCHANGED decision
    /\ UNCHANGED <<snapshot, labels, total_fractions, delivered_fractions,
                   voxel_indices, relative_volumes, voxel_volume_cc,
                   delivered_dose, i, mean_dose, accumulated_dose,
                   current_v6000, current_v6200, CG_v6000, CG_v6200,
                   future_log, runs, prev>>

\* variant of the loop: range(1, remaining_fractions)
ProjectMore_Exclusive(pass, remaining) == pass < remaining

\* for x in range(1, remaining_fractions + 1)
ProjectMore(pass, remaining) == pass <= remaining

\* variant of y: the air fraction itself is left out of the course
MeanFractions_Short(total, pass) == total - pass - 1

\* y = total_fractions - x
MeanFractions(total, pass) == total - pass

\* variant of future_total_dose: y * mean_dose + air_dose
FutureTotalDose_OneAir(total, pass, mean, air) ==
    NpAdd(NpScale(mean, RatOfInt(total - pass)), air)

\* future_total_dose = y * mean_dose + x * air_dose
FutureTotalDose(total, pass, mean, air) ==
    NpAdd(NpScale(mean, RatOfInt(MeanFractions(total, pass))),
          NpScale(air, RatOfInt(pass)))

\* one pass of the simulation loop
Project ==
    /\ pc = "project"
    /\ ProjectMore(x, remaining_fractions)
    /\ LET future_total_dose == FutureTotalDose(total_fractions, x, mean_dose, air_dose)
           simulated_doses == Take(Flatten(future_total_dose), voxel_indices)
       IN  /\ CG_v6000' = Append(CG_v6000, V6000(relative_volumes, simulated_doses))
           /\ CG_v6200' = Append(CG_v6200, V6200(simulated_doses, voxel_volume_cc))
           /\ future_log' = Append(future_log, future_total_dose)
    /\ x' = x + 1
    /\ UNCHANGED <<snapshot, labels, pc, total_fractions, delivered_fractions,
                   voxel_indices, relative_volumes, voxel_volume_cc,
                   delivered_dose, i, mean_dose, accumulated_dose,
                   current_v6000, current_v6200, air_dose, remaining_fractions,
                   decision, reads, runs, prev>>

\* plot_prediction: the two curves are shown, the window stays open
PlotPrediction ==
    /\ pc = "project"
    /\ ~ProjectMore(x, remaining_fractions)
    /\ decision' = "Proceed"
    /\ pc' = "idle"
    /\ UNCHANGED <<snapshot, labels, locals, reads, future_log, runs, prev>>

Next ==
    \/ Launch
    \/ CancelClicked
    \/ AnalyseClicked
    \/ LoadRoi
    \/ Accumulate
    \/ CurrentMetrics
    \/ GoalCheck
    \/ Project
    \/ PlotPrediction

Spec == Init /\ [][Next]_vars

TypeOK ==
    /\ pc \in {"off", "idle", "load", "accumulate", "check", "project"}
    /\ decision \in {"none", "InterveneInsufficientData", "InterveneGoalExceeded",
                     "Proceed", "IndexError"}
    /\ runs \in 0..MaxRuns

\* ================================================================ claims
Total == Len(TreatmentFractions)
Reported == Cardinality({k \in DOMAIN TreatmentFractions :
                            TreatmentFractions[k].Status = "Delivered"})
Voxels == {c \in (1..GridShape.z) \X (1..GridShape.y) \X (1..GridShape.x) : TRUE}

\* the voxel of a grid that the flat offset idx names (row-major)
DoseAt(grid, idx) ==
    LET c == CHOOSE c \in Voxels :
                 ((c[1] - 1) * GridShape.y + (c[2] - 1)) * GridShape.x + (c[3] - 1) = idx
    IN  grid[c[1]][c[2]][c[3]]

\* the doses of a grid at the ROI positions
RoiDosesOf(grid) == [k \in 1..Len(voxel_indices) |-> DoseAt(grid, voxel_indices[k])]

RECURSIVE WeightOver(_, _)
WeightOver(S, weights) ==
    IF S = {} THEN <<0, 1>>
    ELSE LET k == CHOOSE k \in S : TRUE
         IN  RatAdd(weights[k], WeightOver(S \ {k}, weights))

ExpectedPercent(doses, weights) ==
    RatMul(<<100, 1>>,
           WeightOver({k \in 1..Len(doses) : RatGE(doses[k], <<6000, 1>>)}, weights))

ExpectedVolume(doses, volume) ==
    RatMul(<<Cardinality({k \in 1..Len(doses) : RatGE(doses[k], <<6200, 1>>)}), 1>>, volume)

\* sum over the fractions at indices 0..n-1 of the dose in one voxel
RECURSIVE VoxelSum(_, _)
VoxelSum(n, c) ==
    IF n = 0 THEN <<0, 1>>
    ELSE RatAdd(VoxelSum(n - 1, c), TreatmentFractions[n].DoseData[c[1]][c[2]][c[3]])

\* k * mean + m * air in one voxel
Mix(k, m, c) ==
    RatAdd(RatMul(<<k, 1>>, mean_dose[c[1]][c[2]][c[3]]),
           RatMul(<<m, 1>>, air_dose[c[1]][c[2]][c[3]]))

\* the metrics of the current state exist
MetricsDone == pc \in {"check", "project"} \/ decision \in {"Proceed", "InterveneGoalExceeded"}
\* the air fraction was read
AirRead == pc = "project" \/ decision = "Proceed"

\* C1: whenever the reported delivered count r has r - 1 < 5, a started
\* evaluation has ended with InterveneInsufficientData and has read no ROI
\* distribution, no voxel geometry and no dose grid; it has no metrics or curve.
C1_InsufficientDataGate ==
    (runs >= 1 /\ Reported - 1 < 5) =>
        /\ decision = "InterveneInsufficientData"
        /\ pc \in {"off", "idle"}
        /\ reads = NoReads
        /\ current_v6000 = Unset /\ current_v6200 = Unset
        /\ CG_v6000 = <<>> /\ CG_v6200 = <<>>

C1_Witness ==
    /\ runs >= 1 /\ Reported - 1 = 4 /\ Total > Reported
    /\ decision = "InterveneInsufficientData" /\ pc = "off"

\* C2: once the goal check has run on current metrics with
\* v_dose_percent >= 3.0 or v_volume_cc >= 2.0, the evaluation has ended with
\* InterveneGoalExceeded, the air fraction was not read and no curve entry exists.
C2_GoalExceededStops ==
    (current_v6000 # Unset /\ pc # "check"
        /\ (RatGE(current_v6000, <<3, 1>>) \/ RatGE(current_v6200, <<2, 1>>))) =>
        /\ delivered_fractions >= 5
        /\ decision = "InterveneGoalExceeded"
        /\ pc \in {"off", "idle"}
        /\ reads.air = <<>> /\ air_dose = Unset
        /\ CG_v6000 = <<>> /\ CG_v6200 = <<>> /\ future_log = <<>>

C2_Witness ==
    /\ decision = "InterveneGoalExceeded"
    /\ current_v6000 = <<3, 1>>
    /\ ~RatGE(current_v6200, <<2, 1>>)

\* C3 as stated: the last entry of the curve is evaluated on
\* total_fraction_count * air_dose in every voxel (multiplier of mean_dose 0).
C3_LastEntryIsFullAirCourse ==
    (decision = "Proceed" /\ Len(future_log) >= 1) =>
        \A c \in Voxels :
            future_log[Len(future_log)][c[1]][c[2]][c[3]] = Mix(0, Total, c)

\* C3 amended: at x = remaining the multiplier of mean_dose is the delivered
\* count, so the last entry is evaluated on
\* delivered * mean_dose + remaining * air_dose in every voxel.
C3_LastEntryKeepsDelivered ==
    (decision = "Proceed" /\ Len(future_log) >= 1) =>
        /\ Len(future_log) = Total - (Reported - 1)
        /\ \A c \in Voxels :
            future_log[Len(future_log)][c[1]][c[2]][c[3]]
                = Mix(Reported - 1, Total - (Reported - 1), c)

C3_Witness ==
    /\ decision = "Proceed"
    /\ Len(future_log) = 2
    /\ \E c \in Voxels :
          /\ mean_dose[c[1]][c[2]][c[3]] # air_dose[c[1]][c[2]][c[3]]
          /\ future_log[2][c[1]][c[2]][c[3]] # Mix(0, Total, c)

\* C4: on the Proceed path the curve has exactly remaining = total - delivered
\* entries, and the k-th entry (x = k, ascending) is the metric pair of the
\* grid (total - k) * mean_dose + k * air_dose, voxel by voxel.
C4_CurveEntries ==
    (decision = "Proceed") =>
        /\ Len(CG_v6000) = Total - (Reported - 1)
        /\ Len(CG_v6200) = Total - (Reported - 1)
        /\ Len(future_log) = Total - (Reported - 1)
        /\ \A k \in 1..Len(future_log) :
            /\ \A c \in Voxels :
                  future_log[k][c[1]][c[2]][c[3]] = Mix(Total - k, k, c)
            /\ CG_v6000[k] = ExpectedPercent(RoiDosesOf(future_log[k]), relative_volumes)
            /\ CG_v6200[k] = ExpectedVolume(RoiDosesOf(future_log[k]), voxel_volume_cc)

C4_Witness ==
    /\ decision = "Proceed"
    /\ Len(CG_v6000) = 2
    /\ CG_v6000[1] # CG_v6000[2]
    /\ Len(voxel_indices) = MaxRoi

\* C5: v_dose_percent is 100 times the sum of the relative volumes at the ROI
\* positions with dose >= 6000, v_volume_cc is the voxel volume times the
\* number of ROI positions with dose >= 6200, for the current metrics and for
\* every entry of the curve.
C5_MetricFormulas ==
    /\ MetricsDone =>
        /\ current_v6000 = ExpectedPercent(RoiDosesOf(accumulated_dose), relative_volumes)
        /\ current_v6200 = ExpectedVolume(RoiDosesOf(accumulated_dose), voxel_volume_cc)
    /\ \A k \in 1..Len(CG_v6000) :
        /\ CG_v6000[k] = ExpectedPercent(RoiDosesOf(future_log[k]), relative_volumes)
        /\ CG_v6200[k] = ExpectedVolume(RoiDosesOf(future_log[k]), voxel_volume_cc)

\* a current dose exactly on 6000, a projected dose exactly on 6200, one below 6000
C5_Witness ==
    /\ decision = "Proceed"
    /\ \E k \in 1..Len(voxel_indices) : RoiDosesOf(accumulated_dose)[k] = <<6000, 1>>
    /\ \E k \in 1..Len(voxel_indices) : RoiDosesOf(future_log[1])[k] = <<6200, 1>>
    /\ \E k \in 1..Len(voxel_indices) : ~RatGE(RoiDosesOf(future_log[1])[k], <<6000, 1>>)
    /\ current_v6000 = <<2, 1>>
    /\ CG_v6000[1] = <<1, 1>>

\* C6: the effective delivered count is the number of fractions with status
\* Delivered minus 1; the summed grids are the fractions 0..delivered-1 and
\* the air grid is the fraction at index delivered, which is not summed.
C6_EffectiveDeliveredCount ==
    /\ (runs >= 1) => delivered_fractions = Reported - 1
    /\ MetricsDone => reads.summed = [k \in 1..(Reported - 1) |-> k - 1]
    /\ AirRead =>
        /\ reads.air = <<Reported - 1>>
        /\ air_dose = TreatmentFractions[(Reported - 1) + 1].DoseData
        /\ \A k \in 1..Len(reads.summed) : reads.summed[k] # reads.air[1]

C6_Witness ==
    /\ decision = "Proceed"
    /\ Reported = 6
    /\ reads.summed = <<0, 1, 2, 3, 4>>
    /\ reads.air = <<5>>
    /\ TreatmentFractions[5].DoseData # TreatmentFractions[6].DoseData

\* C7: the accumulated grid is the voxel-wise sum of the N delivered grids,
\* the mean grid is that sum divided by N, the grid of the current-state check
\* is the mean grid times the total fraction count, and N equal grids have
\* themselves as mean.
C7_Accumulation ==
    MetricsDone =>
        LET N == Reported - 1
        IN  /\ N >= 1
            /\ \A c \in Voxels :
                /\ delivered_dose[c[1]][c[2]][c[3]] = VoxelSum(N, c)
                /\ RatMul(mean_dose[c[1]][c[2]][c[3]], <<N, 1>>) = VoxelSum(N, c)
                /\ accumulated_dose[c[1]][c[2]][c[3]]
                     = RatMul(mean_dose[c[1]][c[2]][c[3]], <<Total, 1>>)
                /\ (\A k \in 1..N : TreatmentFractions[k].DoseData = TreatmentFractions[1].DoseData)
                     => mean_dose[c[1]][c[2]][c[3]]
                          = TreatmentFractions[1].DoseData[c[1]][c[2]][c[3]]

\* a mean that is not a whole number of cGy
C7_Witness ==
    /\ pc = "check"
    /\ \E c \in Voxels : mean_dose[c[1]][c[2]][c[3]][2] # 1
    /\ \E k \in 1..(Reported - 1) :
          TreatmentFractions[k].DoseData # TreatmentFractions[1].DoseData

RoiMalformed ==
    \/ Len(RoiVolumeDistribution.VoxelIndices) = 0
    \/ Len(RoiVolumeDistribution.VoxelIndices) # Len(RoiVolumeDistribution.RelativeVolumes)
    \/ \E k \in 1..Len(RoiVolumeDistribution.VoxelIndices) :
          RoiVolumeDistribution.VoxelIndices[k] >= NVoxels

\* C8: with a malformed ROI (empty index list, index and weight lists of
\* different lengths, an index beyond the flattened grid) the metric
\* evaluation ends in an error: no metric pair, no decision Proceed or
\* InterveneGoalExceeded and no curve entry is produced.
C8_MalformedRoiFails ==
    RoiMalformed =>
        /\ ~MetricsDone
        /\ current_v6000 = Unset /\ current_v6200 = Unset
        /\ CG_v6000 = <<>> /\ CG_v6200 = <<>>

\* C9: the second of two evaluations of one unchanged snapshot ends with the
\* decision, the current metrics and the curve of the first.
C9_Idempotent ==
    (runs >= 2 /\ pc \in {"off", "idle"}) => Result = prev

C9_Witness ==
    /\ runs = 2 /\ pc = "idle"
    /\ decision = "Proceed"
    /\ Len(CG_v6000) >= 2
    /\ prev = Result

\* the air dose is at least the mean dose in every ROI voxel
AirAtLeastMean ==
    \A k \in 1..Len(voxel_indices) :
        RatGE(RoiDosesOf(air_dose)[k], RoiDosesOf(mean_dose)[k])

\* C10: when the air dose is at least the mean dose in every ROI voxel, both
\* metrics are non-decreasing along the curve and the first entry is not
\* below the current metrics.
C10_MonotoneCurve ==
    (AirRead /\ AirAtLeastMean) =>
        /\ \A k \in 1..Len(CG_v6000) :
            /\ RatGE(CG_v6000[k], IF k = 1 THEN current_v6000 ELSE CG_v6000[k - 1])
            /\ RatGE(CG_v6200[k], IF k = 1 THEN current_v6200 ELSE CG_v6200[k - 1])

C10_Witness ==
    /\ decision = "Proceed"
    /\ AirAtLeastMean
    /\ Len(CG_v6000) = 2
    /\ CG_v6000[1] # current_v6000
    /\ CG_v6200[2] # CG_v6200[1]

====
